---- MODULE Spec2Model ----
(***************************************************************************)
(* Model of cargo-mutants' discovery engine (src/visit.rs): the syn        *)
(* visitor that walks a parsed source file, keeps a namespace stack,       *)
(* applies the exclusion rules and emits one Mutant per mutation op of     *)
(* every eligible function, together with the spacing normaliser           *)
(* remove_excess_spaces.                                                   *)
(*                                                                         *)
(* Text that the code inspects character by character is a sequence of     *)
(* one-character strings; Str turns such a sequence into a string.         *)
(***************************************************************************)
EXTENDS Integers, Sequences, FiniteSets, TLC

VARIABLES
    source_file,      \* the parsed syn::File: a sequence of item nodes
    error_value,      \* the run's --error option (a record, see ErrorValues)
    pc,               \* "config", "walk", "done", "panic", "failed", "listed", "norm", "normed"
    frames,           \* call stack of the recursive visitor
    namespace_stack,  \* DiscoveryVisitor.namespace_stack
    mutants,          \* DiscoveryVisitor.mutants
    panic_msg,        \* which unwrap/assert aborted the walk ("" if none)
    exit_code,        \* process exit code of the run (-1 while running)
    stderr,           \* diagnostic written by the run
    stdout,           \* listing written by the run
    type_str,         \* input of remove_excess_spaces (normaliser specification)
    normalized        \* its output

vars == <<source_file, error_value, pc, frames, namespace_stack, mutants,
          panic_msg, exit_code, stderr, stdout, type_str, normalized>>

----------------------------------------------------------------------------
(* Strings *)

RECURSIVE Str(_)
\* String of a sequence of characters (chars().collect() read backwards).
Str(cs) == IF cs = <<>> THEN "" ELSE Head(cs) \o Str(Tail(cs))

\* c.remove(i)
RemoveAt(c, i) == SubSeq(c, 1, i - 1) \o SubSeq(c, i + 1, Len(c))

RECURSIVE remove_excess_spaces_from(_, _)
\* The while loop of remove_excess_spaces; i is the 0-based index of the code,
\* so c[i] of the code is c[i + 1] here.
remove_excess_spaces_from(c, i) ==
    IF i + 1 < Len(c)
    THEN IF c[i + 1] = " "
         THEN LET a == c[i]
                  b == c[i + 2]
              IN IF \/ a = ":"
                    \/ b = ":"
                    \/ b = ","
                    \/ a = "&"
                    \/ a = "<"
                    \/ b = "<"
                    \/ a = ">"
                    \/ b = ">"
                 THEN remove_excess_spaces_from(RemoveAt(c, i + 1), i)
                 ELSE remove_excess_spaces_from(c, i + 1)
         ELSE remove_excess_spaces_from(c, i + 1)
    ELSE c

\* Faulty variant of the normaliser: the two character tests are symmetric.
remove_excess_spaces_symmetric(type_str_) ==
    LET RECURSIVE go(_, _)
        go(c, i) ==
            IF i + 1 < Len(c)
            THEN IF /\ c[i + 1] = " "
                    /\ \/ c[i] \in {":", ",", "&", "<", ">"}
                       \/ c[i + 2] \in {":", ",", "&", "<", ">"}
                 THEN go(RemoveAt(c, i + 1), i)
                 ELSE go(c, i + 1)
            ELSE c
    IN go(type_str_, 1)

remove_excess_spaces(type_str_) == remove_excess_spaces_from(type_str_, 1)

----------------------------------------------------------------------------
(* Syntax trees (what syn::parse_str::<syn::File> returns) *)

\* A syn::Path is [leading_colon, segments]; a segment is [ident, arguments]
\* with arguments "None" or "AngleBracketed".
Seg(id) == [ident |-> id, arguments |-> "None"]
SegArgs(id) == [ident |-> id, arguments |-> "AngleBracketed"]
Path(segs) == [leading_colon |-> FALSE, segments |-> segs]

\* syn::Path::is_ident
path_is_ident(path, id) ==
    /\ ~path.leading_colon
    /\ Len(path.segments) = 1
    /\ path.segments[1].arguments = "None"
    /\ path.segments[1].ident = id

\* An Attribute is its path and the outcome of attr.parse_meta(): meta.ok is
\* FALSE when the attribute's tokens are no meta item (parse_meta returns Err).
MetaPath == [ok |-> TRUE, kind |-> "Path", nested |-> <<>>]
MetaList(nested) == [ok |-> TRUE, kind |-> "List", nested |-> nested]
MetaErr == [ok |-> FALSE, kind |-> "Err", nested |-> <<>>]
NestedPath(id) == [kind |-> "Path", path |-> Path(<<Seg(id)>>)]
NestedList(id) == [kind |-> "List", path |-> Path(<<Seg(id)>>)]

AttrTest == [path |-> Path(<<Seg("test")>>), meta |-> MetaPath]
AttrCfgTest == [path |-> Path(<<Seg("cfg")>>), meta |-> MetaList(<<NestedPath("test")>>)]
AttrCfgUnixTest ==
    [path |-> Path(<<Seg("cfg")>>),
     meta |-> MetaList(<<NestedPath("unix"), NestedPath("test")>>)]
AttrCfgNotTest == [path |-> Path(<<Seg("cfg")>>), meta |-> MetaList(<<NestedList("not")>>)]
AttrCfgBare == [path |-> Path(<<Seg("cfg")>>), meta |-> MetaPath]
\* #[cfg(a b)]: accepted by the file parser, rejected by parse_meta
AttrCfgMalformed == [path |-> Path(<<Seg("cfg")>>), meta |-> MetaErr]
AttrMutantsSkip == [path |-> Path(<<Seg("mutants"), Seg("skip")>>), meta |-> MetaPath]
AttrSkip == [path |-> Path(<<Seg("skip")>>), meta |-> MetaPath]
AttrInline == [path |-> Path(<<Seg("inline")>>), meta |-> MetaPath]
\* #[derive(a b)]: malformed as well, but not a cfg attribute
AttrDeriveMalformed == [path |-> Path(<<Seg("derive")>>), meta |-> MetaErr]

\* A syn::Type is its variant, its path (Type::Path only) and its token
\* stream; a token is a sequence of characters.
TypePath(path, tokens) == [kind |-> "Path", path |-> path, tokens |-> tokens]
TypeOther(kind, tokens) == [kind |-> kind, path |-> Path(<<>>), tokens |-> tokens]

TokLt == <<"<">>
TokGt == <<">">>
TokComma == <<",">>
TokAmp == <<"&">>
TokColon2 == <<":", ":">>
TokBool == <<"b", "o", "o", "l">>
TokString == <<"S", "t", "r", "i", "n", "g">>
TokResult == <<"R", "e", "s", "u", "l", "t">>
TokU32 == <<"u", "3", "2">>
TokStr == <<"s", "t", "r">>
TokStatic == <<"'", "s", "t", "a", "t", "i", "c">>
TokVec == <<"V", "e", "c">>
TokFmt == <<"f", "m", "t">>
TokStd == <<"s", "t", "d">>
TokStringMod == <<"s", "t", "r", "i", "n", "g">>
TokFoo == <<"F", "o", "o">>
TokT == <<"T">>
TokSelf == <<"S", "e", "l", "f">>
TokImpl == <<"i", "m", "p", "l">>
TokIterator == <<"I", "t", "e", "r", "a", "t", "o", "r">>

TyBool == TypePath(Path(<<Seg("bool")>>), <<TokBool>>)
TyString == TypePath(Path(<<Seg("String")>>), <<TokString>>)
\* Result<u32, &'static str>
TyResult ==
    TypePath(Path(<<SegArgs("Result")>>),
             <<TokResult, TokLt, TokU32, TokComma, TokAmp, TokStatic, TokStr, TokGt>>)
\* fmt::Result
TyFmtResult ==
    TypePath(Path(<<Seg("fmt"), Seg("Result")>>), <<TokFmt, TokColon2, TokResult>>)
\* Result::Foo: "Result" is a segment, but not the last one
TyResultFoo ==
    TypePath(Path(<<Seg("Result"), Seg("Foo")>>), <<TokResult, TokColon2, TokFoo>>)
TyU32 == TypePath(Path(<<Seg("u32")>>), <<TokU32>>)
\* Vec<String>
TyVecString ==
    TypePath(Path(<<SegArgs("Vec")>>), <<TokVec, TokLt, TokString, TokGt>>)
\* std::string::String
TyStdString ==
    TypePath(Path(<<Seg("std"), Seg("string"), Seg("String")>>),
             <<TokStd, TokColon2, TokStringMod, TokColon2, TokString>>)
\* ::bool
TyGlobalBool ==
    TypePath([leading_colon |-> TRUE, segments |-> <<Seg("bool")>>], <<TokColon2, TokBool>>)
TySelf == TypePath(Path(<<Seg("Self")>>), <<TokSelf>>)
TyFoo == TypePath(Path(<<Seg("Foo")>>), <<TokFoo>>)
\* Vec<T>
TyVecT == TypePath(Path(<<SegArgs("Vec")>>), <<TokVec, TokLt, TokT, TokGt>>)
\* &'static str
TyRefStr == TypeOther("Reference", <<TokAmp, TokStatic, TokStr>>)
\* &bool
TyRefBool == TypeOther("Reference", <<TokAmp, TokBool>>)
\* impl Iterator
TyImplIterator == TypeOther("ImplTrait", <<TokImpl, TokIterator>>)

\* syn::ReturnType
ReturnDefault == [kind |-> "Default"]
ReturnOf(ty) == [kind |-> "Type", ty |-> ty]

\* A node is an ItemFn ("fn"), an ImplItemMethod ("method"), an ItemImpl
\* ("impl"), an ItemMod ("mod"), a TraitItemMethod with a default body
\* ("trait_method"), or any other syntax that syn::visit walks through and
\* that can hold items ("other"): an ItemTrait, an expression of a block (if,
\* closure, nested block),
\* the initialiser of a const or static, an ImplItemConst. The nodes nested
\* directly in a node are kept by the place they are written in, each list in
\* source order:
\*   generics      in a const expression of the generic parameters
\*   sig           in a const expression of the parameter types (function,
\*                 method, trait method), of the arguments of the trait of an
\*                 impl, of the supertraits of a trait
\*   where_clause  in a const expression of the where clause
\*   items         in the body: in the statements of a function's block, the
\*                 items of an impl, a module, a trait
\* exprs is the number of statements of a function's block that hold no node.
\* In the source, generics come before sig, sig before where_clause, and the
\* body last.
NoTrait == [some |-> FALSE, path |-> Path(<<>>)]
TraitOf(path) == [some |-> TRUE, path |-> path]

Fn(attrs, ident, output, exprs, items) ==
    [kind |-> "fn", attrs |-> attrs, ident |-> ident, output |-> output,
     exprs |-> exprs, trait_ |-> NoTrait, self_ty |-> TypeOther("None", <<>>),
     generics |-> <<>>, sig |-> <<>>, where_clause |-> <<>>, items |-> items]
Method(attrs, ident, output, exprs, items) ==
    [kind |-> "method", attrs |-> attrs, ident |-> ident, output |-> output,
     exprs |-> exprs, trait_ |-> NoTrait, self_ty |-> TypeOther("None", <<>>),
     generics |-> <<>>, sig |-> <<>>, where_clause |-> <<>>, items |-> items]
Impl(attrs, trait_, self_ty, items) ==
    [kind |-> "impl", attrs |-> attrs, ident |-> <<>>, output |-> ReturnDefault,
     exprs |-> 0, trait_ |-> trait_, self_ty |-> self_ty,
     generics |-> <<>>, sig |-> <<>>, where_clause |-> <<>>, items |-> items]
Mod(attrs, ident, items) ==
    [kind |-> "mod", attrs |-> attrs, ident |-> ident, output |-> ReturnDefault,
     exprs |-> 0, trait_ |-> NoTrait, self_ty |-> TypeOther("None", <<>>),
     generics |-> <<>>, sig |-> <<>>, where_clause |-> <<>>, items |-> items]

TraitMethod(attrs, ident, output, exprs, items) ==
    [kind |-> "trait_method", attrs |-> attrs, ident |-> ident, output |-> output,
     exprs |-> exprs, trait_ |-> NoTrait, self_ty |-> TypeOther("None", <<>>),
     generics |-> <<>>, sig |-> <<>>, where_clause |-> <<>>, items |-> items]
Other(attrs, items) ==
    [kind |-> "other", attrs |-> attrs, ident |-> <<>>, output |-> ReturnDefault,
     exprs |-> 0, trait_ |-> NoTrait, self_ty |-> TypeOther("None", <<>>),
     generics |-> <<>>, sig |-> <<>>, where_clause |-> <<>>, items |-> items]

WithItems(node, items) == [node EXCEPT !.items = items]
WithSig(node, generics, sig, where_clause) ==
    [node EXCEPT !.generics = generics, !.sig = sig, !.where_clause = where_clause]

\* The nodes nested directly in a node, in the order syn::visit walks them:
\* visit_item_fn and visit_impl_item_method walk the signature before the
\* block, visit_signature the generics before the inputs, visit_item_impl the
\* generics before the trait, the self type and the items, visit_item_trait
\* the generics before the supertraits and the items, and visit_generics the
\* parameters and then the where clause.
Children(node) == node.generics \o node.where_clause \o node.sig \o node.items

\* The place in the source order of the nodes of `node` of the k-th node that
\* is walked.
SourceIndex(node, k) ==
    LET g == Len(node.generics)
        w == Len(node.where_clause)
        h == Len(node.sig)
    IN IF k <= g THEN k
       ELSE IF k <= g + w THEN k + h
       ELSE IF k <= g + w + h THEN k - w
       ELSE k

RECURSIVE ItemsAt(_, _)
\* The nodes the walk of the scope at `path` visits, in its order; a path is a
\* sequence of 1-based indexes into these, the empty path is the file itself.
ItemsAt(items, path) ==
    IF path = <<>> THEN items ELSE ItemsAt(Children(items[Head(path)]), Tail(path))

\* The node at a non-empty path.
NodeAt(items, path) ==
    ItemsAt(items, SubSeq(path, 1, Len(path) - 1))[path[Len(path)]]

----------------------------------------------------------------------------
(* The pure functions of visit.rs *)

Last(s) == s[Len(s)]
Front(s) == SubSeq(s, 1, Len(s) - 1)

RECURSIVE JoinChars(_, _)
\* Token stream to text: the tokens separated by single spaces.
JoinChars(tokens, sep) ==
    IF tokens = <<>> THEN <<>>
    ELSE IF Len(tokens) = 1 THEN tokens[1]
    ELSE Head(tokens) \o sep \o JoinChars(Tail(tokens), sep)

RECURSIVE join(_, _)
\* [String]::join
join(strs, sep) ==
    IF strs = <<>> THEN ""
    ELSE IF Len(strs) = 1 THEN strs[1]
    ELSE Head(strs) \o sep \o join(Tail(strs), sep)

path_is_result(path) ==
    IF path.segments = <<>> THEN FALSE ELSE Last(path.segments).ident = "Result"

\* Faulty variant of ops_for_return_type: `bool` yields only True.
ops_for_return_type_one_bool(return_type) ==
    IF return_type.kind = "Default" THEN <<"Unit">>
    ELSE IF return_type.ty.kind = "Path"
         THEN IF path_is_ident(return_type.ty.path, "bool") THEN <<"True">>
              ELSE IF path_is_ident(return_type.ty.path, "String")
                   THEN <<"EmptyString", "Xyzzy">>
              ELSE IF path_is_result(return_type.ty.path) THEN <<"OkDefault">>
              ELSE <<"Default">>
         ELSE <<"Default">>

ops_for_return_type(return_type) ==
    IF return_type.kind = "Default" THEN <<"Unit">>
    ELSE IF return_type.ty.kind = "Path"
         THEN IF path_is_ident(return_type.ty.path, "bool") THEN <<"True", "False">>
              ELSE IF path_is_ident(return_type.ty.path, "String")
                   THEN <<"EmptyString", "Xyzzy">>
              ELSE IF path_is_result(return_type.ty.path) THEN <<"OkDefault">>
              ELSE <<"Default">>
         ELSE <<"Default">>

\* ty.to_token_stream().to_string()
type_name_string(ty) == JoinChars(ty.tokens, <<" ">>)

return_type_to_string(return_type) ==
    IF return_type.kind = "Default" THEN ""
    ELSE "->" \o " " \o Str(remove_excess_spaces(type_name_string(return_type.ty)))

\* attr.parse_meta().unwrap() panics: the attribute is a cfg whose tokens are
\* no meta item.
attr_is_cfg_test_panics(attr) ==
    /\ path_is_ident(attr.path, "cfg")
    /\ ~attr.meta.ok

attr_is_cfg_test(attr) ==
    /\ path_is_ident(attr.path, "cfg")
    /\ attr.meta.ok
    /\ attr.meta.kind = "List"
    /\ \E k \in DOMAIN attr.meta.nested :
          /\ attr.meta.nested[k].kind = "Path"
          /\ path_is_ident(attr.meta.nested[k].path, "test")

attr_is_test(attr) == path_is_ident(attr.path, "test")

attr_is_mutants_skip(attr) ==
    /\ Len(attr.path.segments) = 2
    /\ attr.path.segments[1].ident = "mutants"
    /\ attr.path.segments[2].ident = "skip"

\* The closure of attrs_excluded, for an attribute whose parse_meta succeeds
\* or is not reached.
attr_excluded(attr) ==
    attr_is_cfg_test(attr) \/ attr_is_test(attr) \/ attr_is_mutants_skip(attr)

\* any() stops at the first attribute that excludes, so an attribute is only
\* examined when no earlier one excludes; the call panics when an examined
\* attribute makes attr_is_cfg_test panic.
attrs_excluded_panics(attrs) ==
    \E k \in DOMAIN attrs :
        /\ attr_is_cfg_test_panics(attrs[k])
        /\ \A j \in 1..(k - 1) : ~attr_excluded(attrs[j])

attrs_excluded(attrs) == \E k \in DOMAIN attrs : attr_excluded(attrs[k])

\* i.block.stmts.is_empty()
block_is_empty(i) == Len(i.items) + i.exprs = 0

\* Mutant::new for every op, in op order; span is the place of the function
\* (its block's brace span), given as the path of its node in the file.
collect_fn_mutants(stack, return_type, span) ==
    LET full_function_name == join(stack, "::")
        return_type_str == return_type_to_string(return_type)
        ops == ops_for_return_type(return_type)
    IN [k \in 1..Len(ops) |->
           [op |-> ops[k], function_name |-> full_function_name,
            return_type_str |-> return_type_str, span |-> span]]

\* Faulty variant of impl_name: the trait is left out of the name.
impl_name_type_only(i) == Str(type_name_string(i.self_ty))

\* The namespace name visit_item_impl computes.
impl_name(i) ==
    LET type_name == type_name_string(i.self_ty)
    IN IF i.trait_.some
       THEN "<impl " \o Last(i.trait_.path.segments).ident \o " for "
                \o Str(remove_excess_spaces(type_name)) \o ">"
       ELSE Str(type_name)

----------------------------------------------------------------------------
(* The visitor. A frame is one descent of syn::visit in progress: the path of
   the node being walked, the index of the next node in it to visit, whether
   the descent is the closure of an in_namespace call (pushed) and the `name`
   that call pushed. frames[1] is visit_file, which pushes nothing. *)

FileFrame == [path |-> <<>>, name |-> "", next |-> 1, pushed |-> FALSE]

Top == Last(frames)
Pending == pc = "walk" /\ Top.next <= Len(ItemsAt(source_file, Top.path))
NextNode == ItemsAt(source_file, Top.path)[Top.next]
NextPath == Append(Top.path, Top.next)
\* The caller's loop over its items moves on to the item after this one.
Stepped == [frames EXCEPT ![Len(frames)].next = @ + 1]

\* self.namespace_stack.push(name.to_owned())
in_namespace_push(stack, name) == Append(stack, name)

\* Faulty variant of the pop of in_namespace: nothing is popped.
in_namespace_pop_nothing(stack) == stack

\* The stack after self.namespace_stack.pop()
in_namespace_pop(stack) == Front(stack)

\* `return` before in_namespace: the node and everything inside it is skipped.
Skip ==
    /\ frames' = Stepped
    /\ UNCHANGED <<namespace_stack, mutants, pc, panic_msg>>

\* A panic unwinds discover_mutants: nothing is returned.
Panic(msg) ==
    /\ pc' = "panic"
    /\ panic_msg' = msg
    /\ UNCHANGED <<frames, namespace_stack, mutants>>

\* in_namespace up to the call of f, with the mutants the closure collects
\* before it descends.
Enter(name, return_types) ==
    LET stack == in_namespace_push(namespace_stack, name)
    IN /\ namespace_stack' = stack
       /\ mutants' = mutants \o
              (IF return_types = <<>> THEN <<>>
               ELSE collect_fn_mutants(stack, return_types[1], NextPath))
       /\ frames' = Append(Stepped, [path |-> NextPath, name |-> name, next |-> 1,
                                     pushed |-> TRUE])
       /\ UNCHANGED <<pc, panic_msg>>

Idle == UNCHANGED <<source_file, error_value, exit_code, stderr, stdout, type_str, normalized>>

visit_item_fn ==
    /\ Pending
    /\ NextNode.kind = "fn"
    /\ LET i == NextNode
       IN IF attrs_excluded_panics(i.attrs) THEN Panic("parse_meta().unwrap()")
          ELSE IF attrs_excluded(i.attrs) \/ block_is_empty(i) THEN Skip
          ELSE Enter(Str(remove_excess_spaces(i.ident)), <<i.output>>)
    /\ Idle

\* Faulty variant of visit_impl_item_method: constructors are visited like any method.
visit_impl_item_method_also_new ==
    /\ Pending
    /\ NextNode.kind = "method"
    /\ LET i == NextNode
       IN IF attrs_excluded_panics(i.attrs) THEN Panic("parse_meta().unwrap()")
          ELSE IF attrs_excluded(i.attrs) \/ block_is_empty(i) THEN Skip
          ELSE Enter(Str(remove_excess_spaces(i.ident)), <<i.output>>)
    /\ Idle

visit_impl_item_method ==
    /\ Pending
    /\ NextNode.kind = "method"
    /\ LET i == NextNode
       IN IF attrs_excluded_panics(i.attrs) THEN Panic("parse_meta().unwrap()")
          ELSE IF attrs_excluded(i.attrs) \/ Str(i.ident) = "new" \/ block_is_empty(i)
               THEN Skip
          ELSE Enter(Str(remove_excess_spaces(i.ident)), <<i.output>>)
    /\ Idle

visit_item_impl ==
    /\ Pending
    /\ NextNode.kind = "impl"
    /\ LET i == NextNode
       IN IF attrs_excluded_panics(i.attrs) THEN Panic("parse_meta().unwrap()")
          ELSE IF attrs_excluded(i.attrs) THEN Skip
          ELSE IF i.trait_.some /\ Last(i.trait_.path.segments).ident = "Default"
               THEN Skip
          ELSE Enter(impl_name(i), <<>>)
    /\ Idle

visit_item_mod ==
    /\ Pending
    /\ NextNode.kind = "mod"
    /\ LET node == NextNode
       IN IF attrs_excluded_panics(node.attrs) THEN Panic("parse_meta().unwrap()")
          ELSE IF ~attrs_excluded(node.attrs) THEN Enter(Str(node.ident), <<>>)
          ELSE Skip
    /\ Idle

\* The default traversal of syn::visit for a node the visitor has no method
\* for: no attribute is looked at, nothing is pushed and nothing collected;
\* the nodes inside it are visited with the namespace stack as it is.
syn_visit_default ==
    /\ Pending
    /\ NextNode.kind \in {"other", "trait_method"}
    /\ frames' = Append(Stepped, [path |-> NextPath, name |-> "", next |-> 1,
                                  pushed |-> FALSE])
    /\ UNCHANGED <<namespace_stack, mutants, pc, panic_msg>>
    /\ Idle

\* The default traversal of a node returned to the traversal around it.
syn_visit_default_return ==
    /\ pc = "walk"
    /\ ~Pending
    /\ Len(frames) > 1
    /\ ~Top.pushed
    /\ frames' = Front(frames)
    /\ UNCHANGED <<namespace_stack, mutants, pc, panic_msg>>
    /\ Idle

\* in_namespace after f returned: pop, and assert_eq! the popped name. The
\* pop has happened when the comparison fails.
in_namespace_return ==
    /\ pc = "walk"
    /\ ~Pending
    /\ Len(frames) > 1
    /\ Top.pushed
    /\ IF namespace_stack = <<>> THEN Panic("pop().unwrap()")
       ELSE IF Last(namespace_stack) # Top.name
            THEN /\ namespace_stack' = in_namespace_pop(namespace_stack)
                 /\ pc' = "panic"
                 /\ panic_msg' = "assert_eq!"
                 /\ UNCHANGED <<frames, mutants>>
       ELSE /\ namespace_stack' = in_namespace_pop(namespace_stack)
            /\ frames' = Front(frames)
            /\ UNCHANGED <<mutants, pc, panic_msg>>
    /\ Idle

\* visit_file returned: discover_mutants returns Ok(visitor.mutants).
discover_mutants_return ==
    /\ pc = "walk"
    /\ ~Pending
    /\ Len(frames) = 1
    /\ pc' = "done"
    /\ UNCHANGED <<frames, namespace_stack, mutants, panic_msg>>
    /\ Idle

WalkNext ==
    \/ visit_item_fn
    \/ visit_impl_item_method
    \/ visit_item_impl
    \/ visit_item_mod
    \/ syn_visit_default
    \/ syn_visit_default_return
    \/ in_namespace_return
    \/ discover_mutants_return

----------------------------------------------------------------------------
(* The run around discovery: the --error option is parsed before discovery,
   and the mutants are listed after it (tests/cli/error_value.rs). *)

NoErrorValue == [some |-> FALSE, text |-> <<>>]
SomeErrorValue(text) == [some |-> TRUE, text |-> text]

\* ::eyre::eyre!("mutant")
TextEyre == <<":", ":", "e", "y", "r", "e", ":", ":", "e", "y", "r", "e", "!", "(", "\"", "m", "u", "t", "a", "n", "t", "\"", ")">>
\* Err(anyhow!("mutant"))
TextErrAnyhow == <<"E", "r", "r", "(", "a", "n", "y", "h", "o", "w", "!", "(", "\"", "m", "u", "t", "a", "n", "t", "\"", ")", ")">>
\* shouldn't work
TextShouldnt == <<"s", "h", "o", "u", "l", "d", "n", "'", "t", " ", "w", "o", "r", "k">>

ErrorValues ==
    {NoErrorValue, SomeErrorValue(TextEyre), SomeErrorValue(TextErrAnyhow),
     SomeErrorValue(TextShouldnt)}

\* Whether the text parses as an expression, for the texts of ErrorValues: the
\* ' of `shouldn't work` starts no character literal, so the parser meets an
\* unexpected token.
parses_as_expr(text) == \A k \in DOMAIN text : text[k] # "'"

starts_with(text, prefix) ==
    Len(text) >= Len(prefix) /\ SubSeq(text, 1, Len(prefix)) = prefix

\* Faulty variant of the option's check: an unparsable value is dropped silently.
parse_error_value_lenient ==
    /\ pc = "config"
    /\ pc' = "walk"
    /\ UNCHANGED <<exit_code, stderr>>
    /\ UNCHANGED <<source_file, error_value, frames, namespace_stack, mutants,
                   panic_msg, stdout, type_str, normalized>>

parse_error_value ==
    /\ pc = "config"
    /\ IF error_value.some /\ ~parses_as_expr(error_value.text)
       THEN /\ pc' = "failed"
            /\ exit_code' = 1
            /\ stderr' = "Failed to parse error value \"" \o Str(error_value.text) \o "\""
       ELSE /\ pc' = "walk"
            /\ stderr' = IF error_value.some
                            /\ starts_with(error_value.text, <<"E", "r", "r", "(">>)
                         THEN "error_value option gives the value of the error, and probably should not start with Err(: got "
                                  \o Str(error_value.text)
                         ELSE ""
            /\ UNCHANGED exit_code
    /\ UNCHANGED <<source_file, error_value, frames, namespace_stack, mutants,
                   panic_msg, stdout, type_str, normalized>>

\* --list: one line per mutant, in the order of the list; the op stands for
\* its description.
list_mutants ==
    /\ pc = "done"
    /\ pc' = "listed"
    /\ stdout' = [k \in DOMAIN mutants |->
                     "replace " \o mutants[k].function_name \o " "
                         \o mutants[k].return_type_str \o " with " \o mutants[k].op]
    /\ exit_code' = 0
    /\ UNCHANGED <<source_file, error_value, frames, namespace_stack, mutants,
                   panic_msg, stderr, type_str, normalized>>

----------------------------------------------------------------------------
(* The normaliser on its own *)

normalize ==
    /\ pc = "norm"
    /\ pc' = "normed"
    /\ normalized' = remove_excess_spaces(type_str)
    /\ UNCHANGED <<source_file, error_value, frames, namespace_stack, mutants,
                   panic_msg, exit_code, stderr, stdout, type_str>>

----------------------------------------------------------------------------
(* Source files *)

MaxNodes == 3
MaxLen == 5

IdF == <<"f">>
IdG == <<"g">>
IdT == <<"t">>
IdC == <<"c">>
IdD == <<"d">>
IdM == <<"m">>
IdTests == <<"t", "e", "s", "t", "s">>
IdBar == <<"b", "a", "r">>
IdNew == <<"n", "e", "w">>
IdBaz == <<"b", "a", "z">>
IdOuter == <<"o", "u", "t", "e", "r">>
IdEvenIsOk == <<"e", "v", "e", "n", "_", "i", "s", "_", "o", "k">>

PathTrait == Path(<<Seg("Trait")>>)
PathDefault == Path(<<Seg("Default")>>)
PathFmtDebug == Path(<<Seg("fmt"), Seg("Debug")>>)

\* The nodes a file, a module, a function's block or another node is built
\* from, and after them the methods an impl block is built from. The second
\* function has no statement of its own: its body is empty unless it holds
\* nodes. The "other" node stands for a trait, an if or a closure in a block,
\* a const; in it lies the last template, a trait's default method that
\* carries #[test]. The one impl with an attribute is impl Trait for Foo with
\* #[mutants::skip].
Templates ==
    <<Fn(<<>>, IdF, ReturnOf(TyBool), 1, <<>>),
      Fn(<<>>, IdG, ReturnDefault, 0, <<>>),
      Fn(<<AttrTest>>, IdT, ReturnDefault, 1, <<>>),
      Fn(<<AttrCfgMalformed>>, IdC, ReturnDefault, 1, <<>>),
      Impl(<<>>, NoTrait, TyFoo, <<>>),
      Impl(<<>>, TraitOf(PathTrait), TyFoo, <<>>),
      Impl(<<>>, TraitOf(PathFmtDebug), TyVecT, <<>>),
      Impl(<<>>, NoTrait, TyVecT, <<>>),
      Impl(<<>>, TraitOf(PathDefault), TyFoo, <<>>),
      Impl(<<AttrMutantsSkip>>, TraitOf(PathTrait), TyFoo, <<>>),
      Mod(<<>>, IdM, <<>>),
      Mod(<<AttrCfgTest>>, IdTests, <<>>),
      Other(<<>>, <<>>),
      Method(<<>>, IdBar, ReturnOf(TyBool), 1, <<>>),
      Method(<<>>, IdNew, ReturnOf(TySelf), 1, <<>>),
      Method(<<AttrMutantsSkip>>, IdBaz, ReturnDefault, 1, <<>>),
      TraitMethod(<<AttrTest>>, IdD, ReturnDefault, 1, <<>>)>>

\* A file is drawn as its nodes, each before the nodes nested in it, with its
\* template, its nesting depth and the place it is written in:
\* <<template, depth, place>>. ParentOf is the template of the scope that a
\* node of depth d written after the nodes of `code` lies in. (Nodes in the
\* generic parameters are drawn with the single functions of FunctionFiles.)
Places == {"sig", "where_clause", "items"}

RECURSIVE ParentOf(_, _)
ParentOf(code, d) ==
    IF Last(code)[2] = d - 1 THEN Templates[Last(code)[1]] ELSE ParentOf(Front(code), d)

\* The node may follow: it is nested at most one deeper than the node before
\* it; a method lies in the body of an impl block, and the body of an impl
\* block holds methods and other nodes (its consts) only; a trait's method
\* lies in the body of another node (the trait). Outside a body lies
\* the first template only, and there is such a place in a function, a
\* method, an impl and another node; an impl without a trait has no sig.
MayFollow(code, node) ==
    /\ node[2] <= (IF code = <<>> THEN 0 ELSE Last(code)[2] + 1)
    /\ IF node[2] = 0
       THEN node[3] = "items" /\ Templates[node[1]].kind \notin {"method", "trait_method"}
       ELSE LET parent == ParentOf(code, node[2])
            IN IF node[3] = "items"
               THEN (Templates[node[1]].kind = "method" => parent.kind = "impl")
                    /\ (Templates[node[1]].kind = "trait_method" => parent.kind = "other")
                    /\ (parent.kind = "impl" =>
                           Templates[node[1]].kind \in {"method", "other"})
               ELSE /\ node[1] = 1
                    /\ parent.kind # "mod"
                    /\ (node[3] = "sig" /\ parent.kind = "impl") => parent.trait_.some

\* The nodes the n-th node of a file is drawn from.
Drawn(n) ==
    ((DOMAIN Templates) \X (0..(n - 1)) \X {"items"})
        \cup ({1} \X (1..(n - 1)) \X (Places \ {"items"}))

RECURSIVE Codes(_)
\* The files of exactly n nodes.
Codes(n) ==
    IF n = 0 THEN {<<>>}
    ELSE {Append(p[1], p[2]) :
            p \in {q \in Codes(n - 1) \X Drawn(n) : MayFollow(q[1], q[2])}}

\* Where the subtree of the first node of `code` ends: the index of the next
\* node that is not nested deeper than d, or one past the end.
RECURSIVE SubtreeEnd(_, _, _)
SubtreeEnd(code, d, j) ==
    IF j > Len(code) \/ code[j][2] <= d THEN j ELSE SubtreeEnd(code, d, j + 1)

RECURSIVE Items(_, _, _)
\* The nodes of depth d of `code` written in `place`, each with the nodes
\* nested in it; the first node of `code` has depth d.
Items(code, d, place) ==
    IF code = <<>> THEN <<>>
    ELSE LET j == SubtreeEnd(code, d, 2)
             inner == SubSeq(code, 2, j - 1)
             rest == Items(SubSeq(code, j, Len(code)), d, place)
         IN IF code[1][3] # place THEN rest
            ELSE <<WithSig(WithItems(Templates[code[1][1]], Items(inner, d + 1, "items")),
                           <<>>,
                           Items(inner, d + 1, "sig"),
                           Items(inner, d + 1, "where_clause"))>> \o rest

\* Attribute lists, return types and surroundings for a single function.
AttrLists ==
    {<<>>, <<AttrTest>>, <<AttrCfgTest>>, <<AttrMutantsSkip>>, <<AttrCfgUnixTest>>,
     <<AttrCfgNotTest>>, <<AttrCfgBare>>, <<AttrSkip>>, <<AttrInline, AttrTest>>,
     <<AttrDeriveMalformed>>, <<AttrCfgMalformed>>, <<AttrTest, AttrCfgMalformed>>,
     <<AttrCfgMalformed, AttrTest>>}

ReturnTypes ==
    {ReturnDefault} \cup
    {ReturnOf(ty) : ty \in {TyBool, TyString, TyResult, TyFmtResult, TyResultFoo, TyU32,
                            TyVecString, TyStdString, TyGlobalBool, TySelf, TyRefStr,
                            TyRefBool, TyImplIterator}}

FnVariants ==
    {Fn(attrs, ident, output, exprs, <<>>) :
        attrs \in AttrLists, ident \in {IdEvenIsOk, IdNew}, output \in ReturnTypes,
        exprs \in {0, 1}}

AsMethod(fn) == [fn EXCEPT !.kind = "method"]

Surroundings(fn) ==
    {<<fn>>,
     <<Mod(<<>>, IdM, <<fn>>)>>,
     <<Fn(<<>>, IdOuter, ReturnOf(TyU32), 1, <<fn>>)>>,
     <<Fn(<<>>, IdOuter, ReturnOf(TyU32), 0, <<Other(<<>>, <<fn>>)>>)>>,
     <<WithSig(Fn(<<>>, IdOuter, ReturnOf(TyU32), 1, <<>>), <<>>, <<fn>>, <<>>)>>,
     <<WithSig(Fn(<<>>, IdOuter, ReturnOf(TyU32), 0, <<>>), <<>>, <<fn>>, <<>>)>>,
     <<WithSig(Impl(<<>>, NoTrait, TyFoo, <<>>), <<fn>>, <<>>, <<>>)>>,
     <<Other(<<>>, <<Other(<<>>, <<fn>>)>>)>>,
     <<Other(<<>>, <<TraitMethod(<<>>, IdD, ReturnDefault, 1, <<fn>>)>>)>>,
     <<Other(<<>>, <<TraitMethod(<<AttrTest>>, IdD, ReturnDefault, 0, <<fn>>)>>)>>,
     <<Impl(<<AttrCfgTest>>, TraitOf(PathTrait), TyFoo, <<AsMethod(fn)>>)>>,
     <<Impl(<<>>, NoTrait, TyFoo, <<AsMethod(fn)>>)>>,
     <<Impl(<<>>, NoTrait, TyVecT, <<AsMethod(fn)>>)>>,
     <<Impl(<<>>, NoTrait, TyFoo,
            <<WithItems(AsMethod(fn), <<Fn(<<>>, IdF, ReturnOf(TyBool), 1, <<>>)>>)>>)>>,
     <<Mod(<<>>, IdM, <<Impl(<<>>, TraitOf(PathFmtDebug), TyVecT, <<AsMethod(fn)>>)>>)>>}

FunctionFiles == UNION {Surroundings(fn) : fn \in FnVariants}

----------------------------------------------------------------------------
(* Specifications *)

WalkStart ==
    /\ frames = <<FileFrame>>
    /\ namespace_stack = <<>>
    /\ mutants = <<>>
    /\ panic_msg = ""
    /\ exit_code = -1
    /\ stderr = ""
    /\ stdout = <<>>
    /\ type_str = <<>>
    /\ normalized = <<>>

\* discover_mutants on a parsed file, from the call of visit_file on.
Init ==
    /\ \E n \in 1..MaxNodes : \E code \in Codes(n) : source_file = Items(code, 0, "items")
    /\ error_value = NoErrorValue
    /\ pc = "walk"
    /\ WalkStart

Next == WalkNext

Spec == Init /\ [][Next]_vars

\* A whole run: the option, discovery of one function in its surroundings,
\* the listing.
RunInit ==
    /\ source_file \in FunctionFiles
    /\ error_value \in ErrorValues
    /\ pc = "config"
    /\ WalkStart

RunNext == parse_error_value \/ WalkNext \/ list_mutants

SpecRun == RunInit /\ [][RunNext]_vars

NormAlphabet == {" ", ":", ",", "&", "<", ">", "a"}

NormInit ==
    /\ source_file = <<>>
    /\ error_value = NoErrorValue
    /\ pc = "norm"
    /\ frames = <<FileFrame>>
    /\ namespace_stack = <<>>
    /\ mutants = <<>>
    /\ panic_msg = ""
    /\ exit_code = -1
    /\ stderr = ""
    /\ stdout = <<>>
    /\ type_str \in UNION {[1..n -> NormAlphabet] : n \in 0..MaxLen}
    /\ normalized = <<>>

NormNext == normalize

SpecNorm == NormInit /\ [][NormNext]_vars

----------------------------------------------------------------------------
(* Vocabulary of the properties *)

RECURSIVE PathsIn(_, _)
\* The paths of all nodes of an item list.
PathsIn(items, prefix) ==
    UNION {{Append(prefix, k)} \cup PathsIn(Children(items[k]), Append(prefix, k)) :
              k \in DOMAIN items}

NodePaths == PathsIn(source_file, <<>>)
Nd(p) == NodeAt(source_file, p)

ProperPrefix(a, p) == Len(a) < Len(p) /\ SubSeq(p, 1, Len(a)) = a
\* The scopes around the node at p, outermost first, and the node itself.
Chain(p) == [j \in 1..Len(p) |-> SubSeq(p, 1, j)]
Ancestors(p) == {SubSeq(p, 1, j) : j \in 1..(Len(p) - 1)}

\* Where the node at p is written: at each level, its place in source order
\* among the nodes of the scope around it.
SourcePath(p) ==
    [j \in 1..Len(p) |->
        IF j = 1 THEN p[1] ELSE SourceIndex(Nd(SubSeq(p, 1, j - 1)), p[j])]

\* An order of paths: a scope before what is inside it, and otherwise by the
\* first index that differs.
Precedes(a, b) ==
    \/ Len(a) < Len(b) /\ SubSeq(b, 1, Len(a)) = a
    \/ \E j \in 1..Len(a) :
          /\ j <= Len(b)
          /\ SubSeq(a, 1, j - 1) = SubSeq(b, 1, j - 1)
          /\ a[j] < b[j]

\* p comes before q in a depth-first, source-order walk.
Before(p, q) == Precedes(SourcePath(p), SourcePath(q))

RECURSIVE OpsOf(_, _)
\* The ops of the mutants of the function at p, in list order.
OpsOf(ms, p) ==
    IF ms = <<>> THEN <<>>
    ELSE IF Head(ms).span = p THEN <<Head(ms).op>> \o OpsOf(Tail(ms), p)
    ELSE OpsOf(Tail(ms), p)

IsFunction(node) == node.kind \in {"fn", "method"}

\* The node is a module, an impl block or a function (a fn item, an impl's
\* method, a trait's default method) and carries #[cfg(test)], #[test] or
\* #[mutants::skip].
Annotated(node) ==
    /\ node.kind # "other"
    /\ \E k \in DOMAIN node.attrs : node.attrs[k] \in {AttrCfgTest, AttrTest, AttrMutantsSkip}

\* The eligibility filter of a node by itself; there is none for a trait's
\* default method and for a node that is neither a module, an impl block nor
\* a function.
Passes(node) ==
    /\ node.kind \notin {"other", "trait_method"} =>
          ~attrs_excluded_panics(node.attrs) /\ ~attrs_excluded(node.attrs)
    /\ IsFunction(node) => ~block_is_empty(node)
    /\ node.kind = "method" => Str(node.ident) # "new"
    /\ node.kind = "impl" =>
          ~(node.trait_.some /\ Last(node.trait_.path.segments).ident = "Default")

\* An eligible function: it passes the filter and so does every scope around it.
Eligible(p) ==
    /\ IsFunction(Nd(p))
    /\ \A j \in 1..Len(p) : Passes(Nd(Chain(p)[j]))

Returned == pc \in {"done", "listed"}

----------------------------------------------------------------------------
(* Properties of discovery, checked under Spec *)

\* C1: exclusion is transitive. A function or method nested at any depth
\* inside a module, impl block or function that carries #[cfg(test)], #[test]
\* or #[mutants::skip] never has a mutant in the list, whatever its own
\* attributes.
C1_ExclusionTransitive ==
    \A p \in NodePaths :
        (IsFunction(Nd(p)) /\ \E a \in Ancestors(p) : Annotated(Nd(a)))
            => OpsOf(mutants, p) = <<>>

\* The segment a scope contributes to the names of the functions inside it.
Segment(node) ==
    IF node.kind = "impl"
    THEN IF node.trait_.some
         THEN "<impl " \o Last(node.trait_.path.segments).ident \o " for "
                  \o Str(remove_excess_spaces(JoinChars(node.self_ty.tokens, <<" ">>))) \o ">"
         ELSE Str(JoinChars(node.self_ty.tokens, <<" ">>))
    ELSE Str(node.ident)

\* The modules, impl blocks and functions around the node at p, and the node.
Scopes(p) == SelectSeq(Chain(p), LAMBDA q : Nd(q).kind \notin {"other", "trait_method"})

ExpectedName(p) == join([j \in 1..Len(Scopes(p)) |-> Segment(Nd(Scopes(p)[j]))], "::")

\* mod m { impl Foo { fn bar() -> bool { .. } } }
FileModImpl ==
    <<Mod(<<>>, IdM,
          <<Impl(<<>>, NoTrait, TyFoo, <<Method(<<>>, IdBar, ReturnOf(TyBool), 1, <<>>)>>)>>)>>
\* mod m { impl Trait for Foo { fn bar() -> bool { .. } } }
FileModTraitImpl ==
    <<Mod(<<>>, IdM,
          <<Impl(<<>>, TraitOf(PathTrait), TyFoo,
                 <<Method(<<>>, IdBar, ReturnOf(TyBool), 1, <<>>)>>)>>)>>
\* mod m { impl fmt::Debug for Vec<T> { fn bar() -> bool { .. } } }
FileModGenericImpl ==
    <<Mod(<<>>, IdM,
          <<Impl(<<>>, TraitOf(PathFmtDebug), TyVecT,
                 <<Method(<<>>, IdBar, ReturnOf(TyBool), 1, <<>>)>>)>>)>>

\* impl Vec<T> { fn bar() -> bool { .. } }
FileGenericImpl ==
    <<Impl(<<>>, NoTrait, TyVecT, <<Method(<<>>, IdBar, ReturnOf(TyBool), 1, <<>>)>>)>>

\* fn f() -> bool { if c { fn f() -> bool { .. } } .. }
FileFnIfFn ==
    <<Fn(<<>>, IdF, ReturnOf(TyBool), 1,
         <<Other(<<>>, <<Fn(<<>>, IdF, ReturnOf(TyBool), 1, <<>>)>>)>>)>>
\* trait T { #[test] fn d() { fn f() -> bool { .. } .. } }
FileTraitMethodFn ==
    <<Other(<<>>,
            <<TraitMethod(<<AttrTest>>, IdD, ReturnDefault, 1,
                          <<Fn(<<>>, IdF, ReturnOf(TyBool), 1, <<>>)>>)>>)>>
\* trait T { const C: u32 = { fn f() -> bool { .. } 1 }; }
FileTraitFn ==
    <<Other(<<>>, <<Other(<<>>, <<Fn(<<>>, IdF, ReturnOf(TyBool), 1, <<>>)>>)>>)>>

\* C4: the name stored on every mutant is the ::-joined sequence, outermost
\* first, of the segments of the scopes around its function (module
\* identifier, type name of a trait-less impl, <impl Trait for Type> of a trait
\* impl, identifier of an enclosing function) and the function's identifier;
\* bar in impl Foo in m is m::Foo::bar, bar in impl Trait for Foo in m is
\* m::<impl Trait for Foo>::bar. (The type of a trait impl is written in
\* conventional spacing, that of a trait-less impl as its tokens are rendered.
\* The scopes entered are the modules, impl blocks, fn items and impl methods:
\* a trait, a trait's default method, a block or a closure around the
\* function is walked through without being entered and has no segment.)
C4_NameCorrect ==
    /\ \A k \in DOMAIN mutants : mutants[k].function_name = ExpectedName(mutants[k].span)
    /\ (pc = "done" /\ source_file = FileModImpl)
           => /\ Len(mutants) = 2
              /\ \A k \in DOMAIN mutants : mutants[k].function_name = "m::Foo::bar"
    /\ (pc = "done" /\ source_file = FileModTraitImpl)
           => /\ Len(mutants) = 2
              /\ \A k \in DOMAIN mutants :
                    mutants[k].function_name = "m::<impl Trait for Foo>::bar"
    /\ (pc = "done" /\ source_file = FileModGenericImpl)
           => /\ Len(mutants) = 2
              /\ \A k \in DOMAIN mutants :
                    mutants[k].function_name = "m::<impl Debug for Vec<T>>::bar"
    /\ (pc = "done" /\ source_file = FileGenericImpl)
           => /\ Len(mutants) = 2
              /\ \A k \in DOMAIN mutants : mutants[k].function_name = "Vec < T >::bar"
    /\ (pc = "done" /\ source_file = FileFnIfFn)
           => /\ Len(mutants) = 4
              /\ mutants[1].function_name = "f"
              /\ mutants[3].function_name = "f::f"
    /\ (pc = "done" /\ source_file = FileTraitFn)
           => /\ Len(mutants) = 2
              /\ \A k \in DOMAIN mutants : mutants[k].function_name = "f"
    /\ (pc = "done" /\ source_file = FileTraitMethodFn)
           => /\ Len(mutants) = 2
              /\ \A k \in DOMAIN mutants : mutants[k].function_name = "f"

C4_Witness ==
    /\ pc = "done"
    /\ source_file = FileModTraitImpl
    /\ Len(mutants) = 2
    /\ mutants[1].function_name = "m::<impl Trait for Foo>::bar"

\* C5: discovery never aborts on a file that parsed: the walk never panics,
\* whatever return types, impl headers and attributes the file holds.
C5_NeverPanics == pc # "panic"

\* C9: the list is in the order of a depth-first, source-order walk: the
\* mutants of one function are contiguous and in op order, those of a function
\* precede those of the functions nested in it, and of two functions of which
\* neither encloses the other, the earlier in the source comes first.
C9_InsertionOrder ==
    /\ \A k \in DOMAIN mutants : \A l \in DOMAIN mutants :
          k < l => \/ mutants[k].span = mutants[l].span
                   \/ Before(mutants[k].span, mutants[l].span)
    /\ \A p \in NodePaths :
          OpsOf(mutants, p) \in {<<>>, ops_for_return_type(Nd(p).output)}

RECURSIVE InProgress(_)
\* The names pushed by the in_namespace calls in progress, outermost first.
InProgress(fs) ==
    IF fs = <<>> THEN <<>>
    ELSE IF Head(fs).pushed THEN <<Head(fs).name>> \o InProgress(Tail(fs))
    ELSE InProgress(Tail(fs))

\* C10: namespace-stack discipline. The stack is at every moment of the walk
\* the names pushed by the in_namespace calls in progress, innermost last, so
\* every call pops the name it pushed (neither its unwrap nor its assert_eq
\* fails) and the stack after a visit, entered or skipped, is the stack before
\* it; the stack is empty when discover_mutants returns.
C10_StackDiscipline ==
    /\ panic_msg \notin {"assert_eq!", "pop().unwrap()"}
    /\ pc \in {"walk", "done"} => namespace_stack = InProgress(frames)
    /\ pc = "done" => namespace_stack = <<>> /\ Len(frames) = 1

\* A walk that entered three nested scopes and skipped none has returned.
C10_Witness ==
    /\ pc = "done"
    /\ source_file = FileModImpl
    /\ namespace_stack = <<>>
    /\ Len(mutants) = 2

----------------------------------------------------------------------------
(* Properties of a run, checked under SpecRun *)

\* The return type as it is written, in conventional spacing.
WrittenType(output) == Str(remove_excess_spaces(JoinChars(output.ty.tokens, <<" ">>)))

EndsInResult(output) ==
    /\ output.kind = "Type"
    /\ output.ty.kind = "Path"
    /\ Last(output.ty.path.segments).ident = "Result"

\* C2: coverage by shape. Every eligible function has exactly the mutants
\* [Unit] when it declares no return type, [True, False] when the type is the
\* path bool, [EmptyString, Xyzzy] when it is the path String, [Default] for
\* any other path whose last segment is not Result, and [Default] for every
\* type that is not a path.
C2_CoverageByShape ==
    Returned =>
        \A p \in NodePaths :
            Eligible(p) =>
                LET output == Nd(p).output
                    ops == OpsOf(mutants, p)
                IN /\ output.kind = "Default" => ops = <<"Unit">>
                   /\ output.kind = "Type" =>
                        /\ output.ty.kind # "Path" => ops = <<"Default">>
                        /\ output.ty.kind = "Path" =>
                             /\ WrittenType(output) = "bool" => ops = <<"True", "False">>
                             /\ WrittenType(output) = "String"
                                    => ops = <<"EmptyString", "Xyzzy">>
                             /\ (/\ WrittenType(output) \notin {"bool", "String"}
                                 /\ ~EndsInResult(output)) => ops = <<"Default">>

\* fn outer() -> u32 { fn even_is_ok() -> bool { .. } .. } has been listed.
C2_Witness ==
    /\ pc = "listed"
    /\ source_file =
          <<Fn(<<>>, IdOuter, ReturnOf(TyU32), 1,
               <<Fn(<<>>, IdEvenIsOk, ReturnOf(TyBool), 1, <<>>)>>)>>
    /\ OpsOf(mutants, <<1>>) = <<"Default">>
    /\ OpsOf(mutants, <<1, 1>>) = <<"True", "False">>

\* C3: configured error plumbing. Every eligible function whose return type
\* is a path ending in Result has the mutants OkDefault and then
\* ConfiguredError(X) when an error expression X is configured for the run,
\* and only OkDefault when none is.
C3_ConfiguredErrorPlumbing ==
    Returned =>
        \A p \in NodePaths :
            (Eligible(p) /\ EndsInResult(Nd(p).output)) =>
                OpsOf(mutants, p) =
                    (IF error_value.some
                     THEN <<"OkDefault", "ConfiguredError(" \o Str(error_value.text) \o ")">>
                     ELSE <<"OkDefault">>)

\* C7: configuration failure is fatal and comes first. With the error value
\* `shouldn't work` no mutant is ever discovered or listed, and once the
\* option is examined the run has failed with exit code 1 and the diagnostic
\* Failed to parse error value "shouldn't work".
C7_ConfigurationFailureFirst ==
    error_value = SomeErrorValue(TextShouldnt) =>
        /\ mutants = <<>>
        /\ stdout = <<>>
        /\ pc \in {"config", "failed"}
        /\ pc = "failed" =>
              /\ exit_code = 1
              /\ stderr = "Failed to parse error value \"shouldn't work\""

C7_Witness ==
    /\ pc = "failed"
    /\ error_value = SomeErrorValue(TextShouldnt)
    /\ Eligible(<<1>>)
    /\ exit_code = 1

\* C8: constructors are excluded. A method named new has no mutants whatever
\* its return type, and neither has any function nested inside it.
C8_ConstructorsExcluded ==
    \A p \in NodePaths :
        (Nd(p).kind = "method" /\ Nd(p).ident = IdNew) =>
            \A q \in NodePaths :
                (q = p \/ ProperPrefix(p, q)) => OpsOf(mutants, q) = <<>>

\* impl Foo { fn new() -> bool { fn f() -> bool { .. } .. } } has been walked:
\* the impl was entered, new and the function inside it would pass every other
\* filter, and the list is empty.
C8_Witness ==
    /\ Returned
    /\ source_file =
          <<Impl(<<>>, NoTrait, TyFoo,
                 <<Method(<<>>, IdNew, ReturnOf(TyBool), 1,
                          <<Fn(<<>>, IdF, ReturnOf(TyBool), 1, <<>>)>>)>>)>>
    /\ mutants = <<>>

----------------------------------------------------------------------------
(* Properties of the normaliser, checked under SpecNorm *)

NoSpaces(c) == SelectSeq(c, LAMBDA ch : ch # " ")

\* A space is dropped for the character kept last before it and the character
\* after it.
DropRule(before, after) ==
    before \in {":", "&", "<", ">"} \/ after \in {":", ",", "<", ">"}

RECURSIVE Compacted(_, _)
\* The text after one pass from left to right that drops each space, other
\* than the first and the last character, for which DropRule holds of the
\* character kept last before it and the character after it.
Compacted(text, out) ==
    IF text = <<>> THEN out
    ELSE IF /\ Head(text) = " "
            /\ out # <<>>
            /\ Len(text) > 1
            /\ DropRule(Last(out), text[2])
         THEN Compacted(Tail(text), out)
         ELSE Compacted(Tail(text), Append(out, Head(text)))

Marks == {":", ",", "&", "<", ">"}

\* The text in which exactly the spaces next to one of : , & < > are deleted.
SpacesNextToMarksDeleted(text) ==
    LET next_to_mark(k) ==
            \/ (k > 1 /\ text[k - 1] \in Marks)
            \/ (k < Len(text) /\ text[k + 1] \in Marks)
        keep(k) == ~(text[k] = " " /\ next_to_mark(k))
        RECURSIVE from(_)
        from(k) == IF k > Len(text) THEN <<>>
                   ELSE IF keep(k) THEN <<text[k]>> \o from(k + 1)
                   ELSE from(k + 1)
    IN from(1)

\* C6 as stated: a space is deleted exactly when the character immediately
\* before it or immediately after it is one of : , & < > (each of the five on
\* either side); nothing else changes.
C6_DeletesNextToAnyMark ==
    pc = "normed" => normalized = SpacesNextToMarksDeleted(type_str)

\* C6 as amended: scanning from left to right, a space that is neither the
\* first nor the last character is deleted when the character now immediately
\* before it is one of : & < > or the character immediately after it is one of
\* : , < >; every other space is kept, and the characters that are not spaces
\* are neither changed nor reordered.
C6_NormalizationRule ==
    pc = "normed" =>
        /\ normalized = Compacted(type_str, <<>>)
        /\ NoSpaces(normalized) = NoSpaces(type_str)

\* ", & a" has become ", &a": the space after the comma stays, the space
\* after the & goes.
C6_Witness ==
    /\ pc = "normed"
    /\ type_str = <<",", " ", "&", " ", "a">>
    /\ normalized = <<",", " ", "&", "a">>

====
